---- MODULE Spec2Model ----
(***************************************************************************)
(* The two Python launchers of own-path/vibe:                              *)
(*   python-package/python-pkg/tempo_cli/main.py   (variant "tempo")       *)
(*   python-package/python-pkg/vibe_cli/main.py    (variant "vibe")        *)
(* Each resolves the path of the native binary, runs it as a child with    *)
(* the launcher's arguments, and exits with the child's status.            *)
(*                                                                         *)
(* The state is the environment the launcher reads (PATH, the files at the *)
(* locations it looks at, sys.argv), the local variables of main(), the    *)
(* position of main() (pc), the pending exception, the child process, and  *)
(* the history of what the launcher did (events, stdout, probed).          *)
(***************************************************************************)
EXTENDS Integers, Sequences, FiniteSets, TLC

\* ------------------------------------------------------------------ bounds
\* At most this many files exist at the locations the launchers look at.
MaxFiles == 2
\* At most this many directories on the executable-search path.
MaxPathLen == 2

\* ------------------------------------------------------- program constants
\* f.read(50)
HeaderLen == 50
\* sys.exit(130) in the KeyboardInterrupt handler
SIGINT_EXIT == 130
\* sys.exit(1) after the guidance, and in the catch-all handler
FAIL_EXIT == 1

None == <<>>

CARGO == "~/.cargo/bin"
USR_LOCAL == "/usr/local/bin"
HOMEBREW == "/opt/homebrew/bin"
Dirs == {CARGO, USR_LOCAL, HOMEBREW}

Variants == {"tempo", "vibe"}

\* console_scripts: 'tempo=tempo_cli.main:main'
tempo_entry_point == "tempo"
\* The vibe package's entry point (its setup file is not part of the sources).
vibe_entry_point == "vibe"
LauncherName(v) == IF v = "tempo" THEN tempo_entry_point ELSE vibe_entry_point

\* The alias names tried in the opposite order.
tempo_binary_names_swapped == <<"tempo-rs", "tempo-bin">>
\* for binary_name in ['tempo-bin', 'tempo-rs']
tempo_binary_names == <<"tempo-bin", "tempo-rs">>
\* shutil.which('vibe')
vibe_binary_names == <<"vibe">>
binary_names(v) == IF v = "tempo" THEN tempo_binary_names ELSE vibe_binary_names

\* possible_paths, after os.path.expanduser
tempo_possible_paths ==
    << <<CARGO, "tempo">>, <<USR_LOCAL, "tempo-bin">>, <<HOMEBREW, "tempo-bin">> >>
\* vibe_cli/main.py probes no well-known location
possible_paths(v) == IF v = "tempo" THEN tempo_possible_paths ELSE << >>

Range(s) == {s[k] : k \in 1..Len(s)}
Basename(loc) == loc[2]

\* ------------------------------------------------------------ file contents
\* The first bytes of tempo_cli/main.py itself: a copy of the launcher.
PyEnvBytes ==
    << "#", "!", "/", "u", "s", "r", "/", "b", "i", "n", "/", "e", "n", "v", " ",
       "p", "y", "t", "h", "o", "n", "3", "LF", "DQ", "DQ", "DQ", "LF",
       "P", "y", "t", "h", "o", "n", " ", "w", "r", "a", "p", "p", "e", "r", " ",
       "f", "o", "r", " ", "t", "h", "e", " ", "T", "e", "m", "p", "o", " ", "C", "L" >>
\* A console script generated inside a virtual environment whose interpreter
\* path is long: "python" starts at byte offset 45.
PyVenvBytes ==
    << "#", "!", "/", "h", "o", "m", "e", "/", "d", "e", "v", "/", "s", "r", "c", "/",
       "o", "w", "n", "-", "p", "a", "t", "h", "/", "v", "i", "b", "e", "/", "p", "y", "/",
       ".", "v", "e", "n", "v", "3", "1", "/", "b", "i", "n", "/",
       "p", "y", "t", "h", "o", "n", "3", "LF", "#", " ", "-", "*", "-" >>
\* A native executable (ELF identification bytes).
ElfBytes ==
    << "0x7f", "E", "L", "F", "0x02", "0x01", "0x01", "0x00", "0x00", "0x00",
       "0x00", "0x00", "0x00", "0x00", "0x00", "0x00", "0x03", "0x00", ">", "0x00" >>

Contents == [py_env |-> PyEnvBytes, py_venv |-> PyVenvBytes, elf |-> ElfBytes, empty |-> << >>]

\* A file: its type, whether the current user may execute / read it, its content.
Absent == [type |-> "absent", x |-> FALSE, r |-> FALSE, data |-> "empty"]
Native == [type |-> "file", x |-> TRUE, r |-> TRUE, data |-> "elf"]
Script == [type |-> "file", x |-> TRUE, r |-> TRUE, data |-> "py_env"]
VenvScript == [type |-> "file", x |-> TRUE, r |-> TRUE, data |-> "py_venv"]
NotExecutable == [type |-> "file", x |-> FALSE, r |-> TRUE, data |-> "elf"]
ExecuteOnly == [type |-> "file", x |-> TRUE, r |-> FALSE, data |-> "elf"]
Directory == [type |-> "dir", x |-> TRUE, r |-> TRUE, data |-> "empty"]
FileKinds == {Native, Script, VenvScript, NotExecutable, ExecuteOnly, Directory}

\* The locations a variant's launcher looks at when the search path is p:
\* the alias names in the directories of p, and the well-known locations.
\* A file anywhere else is never examined.
Locations(v, p) ==
    (Range(p) \X Range(binary_names(v))) \cup Range(possible_paths(v))

\* The argument vectors tried: sys.argv, the program name first.
Argvs(v) ==
    { <<LauncherName(v)>>, <<LauncherName(v), "--help", "session", "--help">> }

PathLists == UNION { [1..n -> Dirs] : n \in 0..MaxPathLen }
NoRepeat(s) == \A k, m \in 1..Len(s) : s[k] = s[m] => k = m

VARIABLES
    variant,     \* which launcher runs
    PATH,        \* the executable-search path: a sequence of directories
    fs,          \* location -> file, for the files that exist
    argv,        \* sys.argv
    launcher,    \* the location the launcher was started from, None if not via PATH
    pc,          \* position of main()
    idx,         \* index of binary_name in the loop of line 19 / of path in line 38
    tempo_path,  \* tempo_path (vibe_path in vibe_cli)
    probed,      \* the well-known locations examined so far
    exc,         \* the exception being raised
    child,       \* the child process
    interrupted, \* an interrupt arrived while the child was running
    raised,      \* the types of the errors raised so far, in order
    events,      \* what the launcher did: resolve, spawn, exit
    stdout       \* the lines printed

vars == <<variant, PATH, fs, argv, launcher, pc, idx, tempo_path, probed, exc, child,
          interrupted, raised, events, stdout>>

env == <<variant, PATH, fs, argv, launcher>>

\* ------------------------------------------------------------- filesystem
File(loc) == IF loc \in DOMAIN fs THEN fs[loc] ELSE Absent

\* os.path.isfile(path)
isfile(loc) == File(loc).type = "file"
\* os.access(path, os.X_OK)
access_X_OK(loc) == File(loc).type # "absent" /\ File(loc).x
\* open(path, 'rb') succeeds
CanOpen(loc) == File(loc).type = "file" /\ File(loc).r

Take(s, n) == SubSeq(s, 1, IF Len(s) < n THEN Len(s) ELSE n)
\* f.read() without the size: the whole file.
ReadHeader_all(loc) == Contents[File(loc).data]
\* f.read(50)
ReadHeader(loc) == Take(Contents[File(loc).data], HeaderLen)

Upper == <<"A", "B", "C", "D", "E", "F", "G", "H", "I", "J", "K", "L", "M",
           "N", "O", "P", "Q", "R", "S", "T", "U", "V", "W", "X", "Y", "Z">>
Lower == <<"a", "b", "c", "d", "e", "f", "g", "h", "i", "j", "k", "l", "m",
           "n", "o", "p", "q", "r", "s", "t", "u", "v", "w", "x", "y", "z">>
LowerByte(b) ==
    IF \E k \in 1..26 : Upper[k] = b THEN Lower[CHOOSE k \in 1..26 : Upper[k] = b] ELSE b
\* header.lower()
lower(bytes) == [k \in 1..Len(bytes) |-> LowerByte(bytes[k])]

\* needle in haystack, for byte strings
Contains(haystack, needle) ==
    \E k \in 0..(Len(haystack) - Len(needle)) :
        \A j \in 1..Len(needle) : haystack[k + j] = needle[j]

python == <<"p", "y", "t", "h", "o", "n">>
\* b'python' in header.lower()
HasSignature(header) == Contains(lower(header), python)

\* shutil.which(cmd): the first directory of PATH holding an executable
\* non-directory named cmd, or None
WhichHit(loc) == File(loc).type = "file" /\ File(loc).x
which(cmd) ==
    IF \E k \in 1..Len(PATH) : WhichHit(<<PATH[k], cmd>>)
    THEN LET k == CHOOSE k \in 1..Len(PATH) :
                     /\ WhichHit(<<PATH[k], cmd>>)
                     /\ \A m \in 1..(k - 1) : ~WhichHit(<<PATH[m], cmd>>)
         IN <<PATH[k], cmd>>
    ELSE None

\* ---------------------------------------------------------------- Python
\* The exception classes that occur, each with its base class.
Base ==
    [SystemExit |-> "BaseException", KeyboardInterrupt |-> "BaseException",
     Exception |-> "BaseException", OSError |-> "Exception",
     FileNotFoundError |-> "OSError", PermissionError |-> "OSError",
     BaseException |-> "object"]
RECURSIVE issubclass(_, _)
issubclass(cls, base) ==
    IF cls = base THEN TRUE
    ELSE IF cls = "BaseException" THEN FALSE
    ELSE issubclass(Base[cls], base)

NoExc == [type |-> "None", code |-> 0]
Raise(type) == [type |-> type, code |-> 0]
\* sys.exit(code) raises SystemExit(code)
SystemExit(code) == [type |-> "SystemExit", code |-> code]

\* The inner handler of line 47, a bare except, catches every exception.
ProbeExceptCatches(type) == issubclass(type, "BaseException")

\* The catch-all written as a bare except: it also catches SystemExit.
ExceptClause_bare(type) ==
    IF issubclass(type, "KeyboardInterrupt") THEN "KeyboardInterrupt"
    ELSE IF issubclass(type, "BaseException") THEN "Exception"
    ELSE "none"
\* The try statement without its KeyboardInterrupt clause.
ExceptClause_noKeyboardInterrupt(type) ==
    IF issubclass(type, "Exception") THEN "Exception" ELSE "none"
\* The try statement without its catch-all clause.
ExceptClause_noException(type) ==
    IF issubclass(type, "KeyboardInterrupt") THEN "KeyboardInterrupt" ELSE "none"

\* The handlers of lines 66-70 (33-37 in vibe_cli), tried in order: the
\* clause that catches an exception of this type, "none" if it propagates.
ExceptClause(type) ==
    IF issubclass(type, "KeyboardInterrupt") THEN "KeyboardInterrupt"
    ELSE IF issubclass(type, "Exception") THEN "Exception"
    ELSE "none"

\* The status the operating system reports for sys.exit(code)
ExitStatus(code) == code % 256

\* The statuses a child that runs to completion reports.
ChildStatuses == {0, 1, 2}

\* The print calls of lines 51-56 (18-23 in vibe_cli)
Guidance(v) ==
    << "binary not found in PATH.",
       "This usually means the installation didn't complete successfully.",
       "Please try one of these alternatives:",
       "  1. Install via cargo",
       "  2. Install via homebrew",
       "  3. Reinstall this package" >>
\* print(f"Error running tempo: {e}")
ErrorLine(e) == "Error running: " \o e

\* An error of this type, raised by the statement at: open (line 42) or
\* subprocess.run (line 62, 29 in vibe_cli)
Error(type, at) == [type |-> type, at |-> at]
Event(ev, cmd, code, ok) == [ev |-> ev, cmd |-> cmd, code |-> code, ok |-> ok]
NoChild == [state |-> "none", returncode |-> 0]

\* A console script of a Python package: what the launcher itself is on disk.
IsLauncherScript(loc) == File(loc).type = "file" /\ File(loc).data \in {"py_env", "py_venv"}

\* ------------------------------------------------------------------ Init
Init ==
    /\ variant \in Variants
    /\ PATH \in {p \in PathLists : NoRepeat(p)}
    /\ \E S \in SUBSET Locations(variant, PATH) :
          /\ Cardinality(S) <= MaxFiles
          /\ fs \in [S -> FileKinds]
    /\ argv \in Argvs(variant)
    \* started by its name through PATH (then it is the file the shell found
    \* under that name), or in another way
    /\ launcher \in {None} \cup
          {loc \in {which(LauncherName(variant))} : loc # None /\ IsLauncherScript(loc)}
    /\ pc = "which"
    /\ idx = 1
    /\ tempo_path = None
    /\ probed = << >>
    /\ exc = NoExc
    /\ child = NoChild
    /\ interrupted = FALSE
    /\ raised = << >>
    /\ events = << >>
    /\ stdout = << >>

\* --------------------------------------------------------------- actions
\* An exception leaves main(): SystemExit ends the process with its code,
\* any other exception ends it with a traceback and status 1.
ProcessExit(e) ==
    IF e.type = "SystemExit"
    THEN Event("exit", << >>, ExitStatus(e.code), TRUE)
    ELSE Event("exit", << >>, 1, FALSE)

\* vibe_cli/main.py line 16: vibe_path = shutil.which('vibe')
VibeWhich ==
    /\ variant = "vibe" /\ pc = "which"
    /\ tempo_path' = which(vibe_binary_names[1])
    /\ events' = Append(events, Event("resolve", << >>, 0, TRUE))
    /\ pc' = "check"
    /\ UNCHANGED <<env, idx, probed, exc, child, interrupted, stdout, raised>>

\* tempo_cli/main.py lines 19-25: one iteration of the loop over the alias
\* names; a hit breaks out of the loop and skips the block of line 25
TempoWhich ==
    /\ variant = "tempo" /\ pc = "which"
    /\ LET p == which(tempo_binary_names[idx]) IN
          /\ tempo_path' = p
          /\ IF p # None THEN pc' = "check" /\ idx' = idx
             ELSE IF idx < Len(tempo_binary_names) THEN pc' = "which" /\ idx' = idx + 1
             ELSE pc' = "probe" /\ idx' = 1
    /\ events' = IF idx = 1 THEN Append(events, Event("resolve", << >>, 0, TRUE)) ELSE events
    /\ UNCHANGED <<env, probed, exc, child, interrupted, stdout, raised>>

\* lines 38-48: one iteration of the loop over possible_paths
TempoProbe ==
    /\ variant = "tempo" /\ pc = "probe"
    /\ LET path == tempo_possible_paths[idx]
           opened == isfile(path) /\ access_X_OK(path)
           raised_ == opened /\ ~CanOpen(path)
       IN /\ probed' = Append(probed, path)
          /\ raised' = IF raised_ THEN Append(raised, Error("PermissionError", "open"))
                       ELSE raised
          /\ IF raised_ /\ ~ProbeExceptCatches("PermissionError")
             THEN \* the error leaves main()
                  /\ exc' = Raise("PermissionError")
                  /\ events' = Append(events, ProcessExit(Raise("PermissionError")))
                  /\ pc' = "done"
                  /\ UNCHANGED <<tempo_path, idx>>
             ELSE /\ UNCHANGED <<exc, events>>
                  /\ IF opened /\ ~raised_ /\ ~HasSignature(ReadHeader(path))
                     THEN tempo_path' = path /\ pc' = "check" /\ idx' = idx
                     ELSE /\ tempo_path' = tempo_path
                          /\ IF idx < Len(tempo_possible_paths)
                             THEN pc' = "probe" /\ idx' = idx + 1
                             ELSE pc' = "check" /\ idx' = idx
    /\ UNCHANGED <<env, child, interrupted, stdout>>

\* The guidance followed by sys.exit() without a status: the process exits 0.
NotFound_exit0 ==
    /\ pc = "check" /\ tempo_path = None
    /\ stdout' = stdout \o Guidance(variant)
    /\ exc' = SystemExit(0)
    /\ events' = Append(events, ProcessExit(SystemExit(0)))
    /\ pc' = "done"
    /\ UNCHANGED <<env, idx, tempo_path, probed, child, interrupted, raised>>

\* lines 50-57 (17-24): nothing resolved: print the guidance and sys.exit(1),
\* outside the try statement
NotFound ==
    /\ pc = "check" /\ tempo_path = None
    /\ stdout' = stdout \o Guidance(variant)
    /\ exc' = SystemExit(FAIL_EXIT)
    /\ events' = Append(events, ProcessExit(SystemExit(FAIL_EXIT)))
    /\ pc' = "done"
    /\ UNCHANGED <<env, idx, tempo_path, probed, child, interrupted, raised>>

\* The command line of line 62 (29): [tempo_path] + sys.argv[1:]
Command == <<tempo_path>> \o Tail(argv)

\* lines 60-64 (27-31): subprocess.run starts the child
Run ==
    /\ pc = "check" /\ tempo_path # None
    /\ events' = Append(events, Event("spawn", Command, 0, TRUE))
    /\ child' = [state |-> "running", returncode |-> 0]
    /\ pc' = "wait"
    /\ UNCHANGED <<env, idx, tempo_path, probed, exc, interrupted, stdout, raised>>

\* subprocess.run raises: the executable disappeared or lost its permission
\* after it was resolved
RunFails ==
    /\ pc = "check" /\ tempo_path # None
    /\ \E e \in {"FileNotFoundError", "PermissionError"} :
          /\ events' = Append(events, Event("spawn", Command, 0, FALSE))
          /\ exc' = Raise(e)
          /\ raised' = Append(raised, Error(e, "run"))
    /\ pc' = "except"
    /\ UNCHANGED <<env, idx, tempo_path, probed, child, interrupted, stdout>>

\* the child runs to completion; line 65 (32): sys.exit(result.returncode)
ChildExits ==
    /\ pc = "wait"
    /\ \E c \in ChildStatuses :
          /\ child' = [state |-> "exited", returncode |-> c]
          /\ exc' = SystemExit(c)
    /\ pc' = "except"
    /\ UNCHANGED <<env, idx, tempo_path, probed, interrupted, events, stdout, raised>>

\* waiting for the child fails
WaitFails ==
    /\ pc = "wait"
    /\ exc' = Raise("OSError")
    /\ raised' = Append(raised, Error("OSError", "run"))
    /\ pc' = "except"
    /\ UNCHANGED <<env, idx, tempo_path, probed, child, interrupted, events, stdout>>

\* the launcher receives SIGINT while it waits for the child
Interrupt ==
    /\ pc = "wait"
    /\ interrupted' = TRUE
    /\ exc' = Raise("KeyboardInterrupt")
    /\ raised' = Append(raised, Error("KeyboardInterrupt", "run"))
    /\ pc' = "except"
    /\ UNCHANGED <<env, idx, tempo_path, probed, child, events, stdout>>

\* lines 66-67 (33-34): except KeyboardInterrupt: sys.exit(130)
ExceptKeyboardInterrupt ==
    /\ pc = "except" /\ ExceptClause(exc.type) = "KeyboardInterrupt"
    /\ exc' = SystemExit(SIGINT_EXIT)
    /\ events' = Append(events, ProcessExit(SystemExit(SIGINT_EXIT)))
    /\ pc' = "done"
    /\ UNCHANGED <<env, idx, tempo_path, probed, child, interrupted, stdout, raised>>

\* The catch-all handler running the binary again instead of exiting.
ExceptException_retry ==
    /\ pc = "except" /\ ExceptClause(exc.type) = "Exception"
    /\ stdout' = Append(stdout, ErrorLine(exc.type))
    /\ exc' = NoExc
    /\ pc' = "check"
    /\ UNCHANGED <<env, idx, tempo_path, probed, child, interrupted, raised, events>>

\* lines 68-70 (35-37): except Exception as e: print(...); sys.exit(1)
ExceptException ==
    /\ pc = "except" /\ ExceptClause(exc.type) = "Exception"
    /\ stdout' = Append(stdout, ErrorLine(exc.type))
    /\ exc' = SystemExit(FAIL_EXIT)
    /\ events' = Append(events, ProcessExit(SystemExit(FAIL_EXIT)))
    /\ pc' = "done"
    /\ UNCHANGED <<env, idx, tempo_path, probed, child, interrupted, raised>>

\* no clause of the try statement catches the exception: it leaves main()
ExceptNone ==
    /\ pc = "except" /\ ExceptClause(exc.type) = "none"
    /\ events' = Append(events, ProcessExit(exc))
    /\ pc' = "done"
    /\ UNCHANGED <<env, idx, tempo_path, probed, exc, child, interrupted, stdout, raised>>

Next ==
    \/ VibeWhich
    \/ TempoWhich
    \/ TempoProbe
    \/ NotFound
    \/ Run
    \/ RunFails
    \/ ChildExits
    \/ WaitFails
    \/ Interrupt
    \/ ExceptKeyboardInterrupt
    \/ ExceptException
    \/ ExceptNone

Spec == Init /\ [][Next]_vars

\* The steps main() takes by itself; the others (ChildExits, WaitFails,
\* Interrupt) are taken by the child or the user, and may never happen.
MainStep ==
    \/ VibeWhich \/ TempoWhich \/ TempoProbe \/ NotFound \/ Run \/ RunFails
    \/ ExceptKeyboardInterrupt \/ ExceptException \/ ExceptNone

\* The interpreter keeps running main() until the process has exited.
FairSpec == Spec /\ WF_vars(MainStep)

\* ------------------------------------------------------------- properties
\* What the properties say about the environment is stated on fs and PATH
\* directly, not through the operators main() is modelled with.
IsSpawn(e) == e.ev = "spawn"
IsExit(e) == e.ev = "exit"
Spawns == SelectSeq(events, IsSpawn)
ExitEvents == SelectSeq(events, IsExit)
EventKinds == [k \in 1..Len(events) |-> events[k].ev]
Exited == pc = "done"
ExitCode == events[Len(events)].code
Resolved == pc \notin {"which", "probe"}

ExecutableFile(loc) == loc \in DOMAIN fs /\ fs[loc].type = "file" /\ fs[loc].x
PythonAnyCase == << {"p", "P"}, {"y", "Y"}, {"t", "T"}, {"h", "H"}, {"o", "O"}, {"n", "N"} >>
\* 'python', in any case, lies within the first 50 bytes of the file
PrefixHasPython(loc) ==
    LET b == Contents[fs[loc].data] IN
    \E k \in 0..44 : k + 6 <= Len(b) /\ \A j \in 1..6 : b[k + j] \in PythonAnyCase[j]
Aliases == IF variant = "tempo" THEN {"tempo-bin", "tempo-rs"} ELSE {"vibe"}
NameOnPath(n) == \E k \in 1..Len(PATH) : ExecutableFile(<<PATH[k], n>>)
AliasOnPath == \E n \in Aliases : NameOnPath(n)
FirstOnPath(n) ==
    LET k == CHOOSE k \in 1..Len(PATH) :
                 /\ ExecutableFile(<<PATH[k], n>>)
                 /\ \A m \in 1..Len(PATH) : ExecutableFile(<<PATH[m], n>>) => k <= m
    IN <<PATH[k], n>>
WellKnown ==
    IF variant = "tempo"
    THEN << <<"~/.cargo/bin", "tempo">>, <<"/usr/local/bin", "tempo-bin">>,
            <<"/opt/homebrew/bin", "tempo-bin">> >>
    ELSE << >>
WellKnownValid(loc) == ExecutableFile(loc) /\ fs[loc].r /\ ~PrefixHasPython(loc)
SomeWellKnownValid == \E k \in 1..Len(WellKnown) : WellKnownValid(WellKnown[k])
FirstWellKnownValid ==
    CHOOSE k \in 1..Len(WellKnown) :
        /\ WellKnownValid(WellKnown[k])
        /\ \A m \in 1..(k - 1) : ~WellKnownValid(WellKnown[m])
NoCandidate == ~AliasOnPath /\ ~SomeWellKnownValid
\* The files at a searched location that are executable and no Python script.
ValidCandidates ==
    {loc \in (Range(PATH) \X Aliases) : ExecutableFile(loc) /\ ~PrefixHasPython(loc)}
        \cup {loc \in Range(WellKnown) : WellKnownValid(loc)}

\* C1: resolution never returns an executable file whose first 50 bytes hold
\* 'python' (in any case), whether it was found on the search path or by
\* probing a well-known location.
C1_SignedCandidateNeverSelected ==
    (Resolved /\ tempo_path # None) => ~PrefixHasPython(tempo_path)

\* C2: the path handed to the child-process spawn is never the launcher itself.
C2_NeverSpawnsItself ==
    \A k \in 1..Len(events) : events[k].ev = "spawn" => events[k].cmd[1] # launcher

\* C3: when no candidate exists in any search location, the launcher spawns
\* nothing, and when it has exited it has printed the guidance and its status
\* is non-zero.
C3_NotFoundGuidance ==
    NoCandidate =>
        /\ Spawns = << >>
        /\ Exited => /\ stdout = Guidance(variant)
                     /\ ExitCode # 0
C3_Witness ==
    /\ Exited /\ NoCandidate /\ variant = "tempo"
    /\ <<"~/.cargo/bin", "tempo">> \in DOMAIN fs
    /\ Len(stdout) = 6 /\ ExitCode = 1

\* C4: an alias on the search path wins over every well-known location, the
\* well-known locations are then not probed at all, and tempo-bin wins over
\* tempo-rs.
C4_SearchPathFirst ==
    variant = "tempo" =>
        /\ probed # << >> => ~AliasOnPath
        /\ (Resolved /\ AliasOnPath) =>
              tempo_path = FirstOnPath(IF NameOnPath("tempo-bin") THEN "tempo-bin"
                                       ELSE "tempo-rs")
C4_Witness ==
    /\ variant = "tempo" /\ Exited
    /\ NameOnPath("tempo-bin")
    /\ \E k \in 1..Len(WellKnown) :
          WellKnownValid(WellKnown[k]) /\ WellKnown[k] # tempo_path
    /\ Len(Spawns) = 1 /\ Spawns[1].cmd[1] = FirstOnPath("tempo-bin")
    /\ probed = << >>

\* C5: when the child ran to completion, the launcher's exit status is the
\* child's status.
C5_ExitCodeIsChildStatus ==
    (Exited /\ child.state = "exited") => ExitCode = child.returncode
C5_Witness ==
    Exited /\ child.state = "exited" /\ child.returncode = 2 /\ ExitCode = 2

\* C6: when exactly one valid candidate exists, it is the one spawned, with
\* the launcher's arguments after the program name, unchanged.
C6_OnlyCandidateSpawned ==
    Cardinality(ValidCandidates) = 1 =>
        /\ \A k \in 1..Len(Spawns) :
              Spawns[k].cmd = <<CHOOSE loc \in ValidCandidates : TRUE>> \o Tail(argv)
        /\ Exited => Len(Spawns) = 1

InterruptLeadsToExit130 ==
    interrupted ~> (Exited /\ ExitCode = 130)
C8_FailuresHandled ==
    Exited =>
        /\ events[Len(events)].ok
        /\ \A k \in 1..Len(raised) :
              (raised[k].at = "run" /\ raised[k].type # "KeyboardInterrupt") =>
                  /\ stdout = <<"Error running: " \o raised[k].type>>
                  /\ ExitCode = 1
C8_Witness ==
    /\ Exited
    /\ raised = << [type |-> "PermissionError", at |-> "open"],
                   [type |-> "FileNotFoundError", at |-> "run"] >>
    /\ probed # << >>
    /\ Len(Spawns) = 1 /\ ~Spawns[1].ok

\* C9: an invocation is one resolution pass, then at most one spawn, then
\* exactly one exit; the spawn runs the resolved path.
C9_ResolveSpawnExit ==
    /\ EventKinds \in { << >>, <<"resolve">>, <<"resolve", "spawn">>,
                        <<"resolve", "exit">>, <<"resolve", "spawn", "exit">> }
    /\ Exited <=> Len(ExitEvents) = 1
    /\ \A k \in 1..Len(Spawns) :
          Resolved /\ tempo_path # None /\ Spawns[k].cmd[1] = tempo_path
C9_Witness ==
    /\ Exited /\ EventKinds = <<"resolve", "spawn", "exit">>
    /\ ~Spawns[1].ok /\ ExitCode = 1

\* The first half of C10: with no alias on the search path the well-known
\* locations are probed in their order up to the first one that is an
\* executable regular file with a readable prefix free of 'python', which is
\* the result; if there is none, all are probed and the result is None.
C10_ProbeResult ==
    (variant = "tempo" /\ Resolved /\ ~AliasOnPath) =>
        /\ tempo_path = IF SomeWellKnownValid THEN WellKnown[FirstWellKnownValid] ELSE None
        /\ probed = SubSeq(WellKnown, 1,
                           IF SomeWellKnownValid THEN FirstWellKnownValid ELSE Len(WellKnown))

\* C10 as stated: the above, and every probed location names the binary by an
\* alias, not by the launcher's own invocation name.
C10_AllProbedAreAliases ==
    /\ C10_ProbeResult
    /\ \A k \in 1..Len(probed) : Basename(probed[k]) # LauncherName(variant)

\* C10 as amended: the above, and every probed location after the first is
\* named tempo-bin; the first, ~/.cargo/bin/tempo, carries the launcher's own
\* invocation name.
C10_ProbedNames ==
    /\ C10_ProbeResult
    /\ \A k \in 1..Len(probed) :
          IF k = 1 THEN probed[k] = <<"~/.cargo/bin", "tempo">>
          ELSE Basename(probed[k]) = "tempo-bin"
C10_Witness ==
    /\ variant = "tempo" /\ Exited /\ ~AliasOnPath
    /\ ExecutableFile(<<"~/.cargo/bin", "tempo">>)
    /\ PrefixHasPython(<<"~/.cargo/bin", "tempo">>)
    /\ tempo_path = <<"/usr/local/bin", "tempo-bin">>
    /\ Len(probed) = 2

====
